---- MODULE Spec2Model ----
(***************************************************************************)
(* hass-proxy: the authorization decision of the proxy view               *)
(* (custom_components/hass_proxy/proxy.py).                                *)
(*                                                                         *)
(* State: the config entry's options, the dynamic registry                 *)
(* entry.runtime_data.dynamic_proxied_urls (a dict, kept here as the       *)
(* sequence of its items in dict iteration order), and the clock           *)
(* time.time().                                                            *)
(*                                                                         *)
(* Spec takes every call as one step: the meaning of a sequence of calls.  *)
(* SpecLoop and SpecThreads take _get_proxied_url and the service          *)
(* handlers statement by statement: SpecLoop runs request handlers on the  *)
(* event loop, SpecThreads adds the service handlers, which are plain      *)
(* functions (neither coroutines nor @callback) and so run on an executor  *)
(* thread beside the event loop. SpecEntry adds changes of the entry's     *)
(* options while Home Assistant runs, and SpecSsl takes rules and options  *)
(* over every ssl setting of the schema.                                   *)
(***************************************************************************)
EXTENDS Integers, Sequences, FiniteSets, TLC

VARIABLES
    dynamic_proxied_urls,  \* items of the dict, in iteration order
    options,               \* entry.options
    now,                   \* time.time()
    last,                  \* what the last completed call returned or raised
    uses,                  \* history: per url_id, open_limit at creation and grants so far
    reqs,                  \* per request: where its handler is in _get_proxied_url, its locals,
                           \* and the keys its loop has visited (history)
    calls,                 \* per executor thread: where its service call is
    services               \* whether hass.services holds the create and delete services

vars == <<dynamic_proxied_urls, options, now, last, uses, reqs, calls, services>>

---------------------------------------------------------------------------
(* Bounds and input domains *)

\* the clock runs from 1 to MaxTime
MaxTime == 3

\* url_id values a caller passes, and the values uuid.uuid4() may produce
ExplicitIds == {"a"}
Uuids == {"u"}
UrlIds == ExplicitIds \cup Uuids

\* call.data["open_limit"], call.data["time_to_live"] (cv.positive_int: >= 0)
OpenLimits == {0, 1, 2}
TimesToLive == {0, 1}

\* ssl_ciphers values of the schema
CONF_SSL_CIPHERS_DEFAULT == "default"
SslCiphers == {"insecure", "modern", "intermediate", "default"}

\* URL patterns: a host ("*" any host) and a path ("" when the pattern has none)
PatX == [host |-> "x", path |-> ""]
PatP == [host |-> "*", path |-> "/p"]
PatY == [host |-> "y", path |-> "/*"]
PatYq == [host |-> "y", path |-> "/q"]
DynamicPatterns == {PatX, PatP}

\* the (ssl_verification, ssl_ciphers) pair callers give a rule of this
\* pattern: the schema's defaults for one pattern, other values for the other
CreateSsl(url_pattern) ==
    IF url_pattern = PatX THEN <<TRUE, "default">> ELSE <<FALSE, "modern">>

\* request.query: has_url says whether the "url" key is present
\* and url the value as sent (percent-encoded)
Hosts == {"x", "y", "z"}
RawPaths == {"/p", "/q"}
NoUrl == [host |-> "-", path |-> "-"]
Queries ==
    {[has_url |-> FALSE, url |-> NoUrl]}
    \cup {[has_url |-> TRUE, url |-> [host |-> h, path |-> p]] : h \in Hosts, p \in RawPaths}
    \cup {[has_url |-> TRUE, url |-> [host |-> "x", path |-> "%2Fp"]]}

\* entry.options: keys names the keys that are set (the value of a key that
\* is not set is never read)
OptionsDynamic ==
    [keys |-> {"dynamic_urls", "url_patterns", "ssl_ciphers"},
     dynamic_urls |-> TRUE, url_patterns |-> <<PatYq, PatY>>,
     ssl_ciphers |-> "modern", ssl_verification |-> FALSE]
OptionsStatic ==
    [keys |-> {"url_patterns", "ssl_ciphers", "ssl_verification"},
     dynamic_urls |-> FALSE, url_patterns |-> <<PatY>>,
     ssl_ciphers |-> "default", ssl_verification |-> FALSE]
OptionsSet == {OptionsDynamic, OptionsStatic}

---------------------------------------------------------------------------
(* Pure helpers *)

\* urllib.parse.unquote on the path: one level of percent-decoding
unquote(url) ==
    [host |-> url.host,
     path |-> IF url.path = "%2Fp" THEN "/p"
              ELSE IF url.path = "%252Fp" THEN "%2Fp"
              ELSE url.path]

\* urlmatch.urlmatch(pattern, url, path_required=False)
urlmatch(pattern, url) ==
    /\ pattern.host \in {"*", url.host}
    /\ pattern.path \in {"", "/*", url.path}

\* faulty variant: the expiration is never looked at
IsExpired_Never(proxied_url, t) == FALSE

\* faulty variant: a rule counts as expired from its expiration time on
IsExpired_AtExpiration(proxied_url, t) ==
    proxied_url.expiration # 0 /\ proxied_url.expiration <= t

\* proxied_url.expiration and proxied_url.expiration < time.time()
IsExpired(proxied_url, t) ==
    proxied_url.expiration # 0 /\ proxied_url.expiration < t

\* faulty variant: every value is passed through
proxy_ssl_cipher_to_ha_ssl_cipher_Passthrough(ssl_ciphers) == ssl_ciphers

\* _proxy_ssl_cipher_to_ha_ssl_cipher
proxy_ssl_cipher_to_ha_ssl_cipher(ssl_ciphers) ==
    IF ssl_ciphers = CONF_SSL_CIPHERS_DEFAULT THEN "PYTHON_DEFAULT" ELSE ssl_ciphers

\* _get_ssl_context / _get_ssl_context_no_verify
get_ssl_context(ssl_ciphers) ==
    [verify |-> TRUE, ciphers |-> proxy_ssl_cipher_to_ha_ssl_cipher(ssl_ciphers)]

get_ssl_context_no_verify(ssl_ciphers) ==
    [verify |-> FALSE, ciphers |-> proxy_ssl_cipher_to_ha_ssl_cipher(ssl_ciphers)]

\* the conditional expression that builds ProxiedURL.ssl_context
SslContextFor(ssl_verification, ssl_ciphers) ==
    IF ssl_verification THEN get_ssl_context(ssl_ciphers)
    ELSE get_ssl_context_no_verify(ssl_ciphers)

NoSsl == [verify |-> FALSE, ciphers |-> "-"]

\* the keys of the dict
Keys(urls) == {urls[i].url_id : i \in 1..Len(urls)}

\* position of a key in iteration order (0 when absent)
IndexOf(urls, url_id) ==
    IF url_id \in Keys(urls)
    THEN CHOOSE i \in 1..Len(urls) : urls[i].url_id = url_id
    ELSE 0

\* d[key]
Item(urls, url_id) == urls[CHOOSE i \in 1..Len(urls) : urls[i].url_id = url_id]

\* del d[key]: the remaining items keep their order
DictDel(urls, url_id) ==
    LET i == IndexOf(urls, url_id)
    IN  SubSeq(urls, 1, i - 1) \o SubSeq(urls, i + 1, Len(urls))

\* faulty variant: the store adds an item without looking for the key
DictSet_Append(urls, item) == Append(urls, item)

\* faulty variant: a store under an existing key moves the key to the end
DictSet_MoveToEnd(urls, item) ==
    LET NotKey(other) == other.url_id # item.url_id
    IN  Append(SelectSeq(urls, NotKey), item)

\* d[key] = value: an existing key keeps its position, a new key goes last
DictSet(urls, item) ==
    LET i == IndexOf(urls, item.url_id)
    IN  IF i = 0 THEN Append(urls, item) ELSE [urls EXCEPT ![i] = item]

---------------------------------------------------------------------------
(* The service handlers (closures of async_setup_entry) *)

\* DynamicProxiedURL(...) as create_proxied_url builds it at time t
NewProxiedURL(url_id, call, t) ==
    [url_id |-> url_id,
     url_pattern |-> call.url_pattern,
     ssl_verification |-> call.ssl_verification,
     ssl_ciphers |-> call.ssl_ciphers,
     open_limit |-> call.open_limit,
     expiration |-> IF call.time_to_live # 0 THEN t + call.time_to_live ELSE 0]

\* call.data.get("url_id") or str(uuid.uuid4()); "" stands for no url_id
CallUrlId(call, uuid4) ==
    IF call.url_id # "" THEN call.url_id ELSE uuid4

\* create_proxied_url: the dict after the call
create_proxied_url(urls, call, uuid4, t) ==
    DictSet(urls, NewProxiedURL(CallUrlId(call, uuid4), call, t))

\* delete_proxied_url, line 121: whether the call raises ServiceValidationError
DeleteRaises(urls, url_id) == url_id \notin Keys(urls)

\* faulty variant: the membership check without the del
delete_proxied_url_NoDel(urls, url_id) == urls

\* delete_proxied_url: the dict after the call
delete_proxied_url(urls, url_id) ==
    IF DeleteRaises(urls, url_id) THEN urls ELSE DictDel(urls, url_id)

\* the service data the schema accepts
CreateCalls ==
    {[url_id |-> i, url_pattern |-> p,
      ssl_verification |-> CreateSsl(p)[1], ssl_ciphers |-> CreateSsl(p)[2],
      open_limit |-> n, time_to_live |-> ttl] :
        i \in ExplicitIds \cup {""}, p \in DynamicPatterns,
        n \in OpenLimits, ttl \in TimesToLive}

---------------------------------------------------------------------------
(* HAProxyView._get_proxied_url *)

\* options.get(key, default)
OptionsGet(opts, key, default) == IF key \in opts.keys THEN opts[key] ELSE default

\* faulty variant: the decrement without the removal at zero
UseRule_NoRemove(urls, i) ==
    IF urls[i].open_limit # 0
    THEN [urls EXCEPT ![i].open_limit = @ - 1]
    ELSE urls

\* faulty variant: the decrement without the test for an unlimited rule
UseRule_AlwaysDecrement(urls, i) ==
    IF urls[i].open_limit - 1 = 0
    THEN DictDel(urls, urls[i].url_id)
    ELSE [urls EXCEPT ![i].open_limit = @ - 1]

\* faulty variant: the removal takes the first item of the dict, not the
\* rule's own key
UseRule_PopFirst(urls, i) ==
    IF urls[i].open_limit # 0
    THEN IF urls[i].open_limit - 1 = 0
         THEN Tail([urls EXCEPT ![i].open_limit = @ - 1])
         ELSE [urls EXCEPT ![i].open_limit = @ - 1]
    ELSE urls

\* lines 192-195: the dict after the rule at position i has authorized
UseRule(urls, i) ==
    IF urls[i].open_limit # 0
    THEN IF urls[i].open_limit - 1 = 0
         THEN DictDel(urls, urls[i].url_id)
         ELSE [urls EXCEPT ![i].open_limit = @ - 1]
    ELSE urls

\* faulty variant: the loop stops at the first expired match instead of continuing
RECURSIVE ScanDynamic_BreakOnExpired(_, _, _, _, _)
ScanDynamic_BreakOnExpired(urls, i, url_to_proxy, t, has_expired_match) ==
    IF i > Len(urls)
    THEN [idx |-> 0, expired |-> has_expired_match]
    ELSE IF urlmatch(urls[i].url_pattern, url_to_proxy)
         THEN IF IsExpired(urls[i], t)
              THEN [idx |-> 0, expired |-> TRUE]
              ELSE [idx |-> i, expired |-> has_expired_match]
         ELSE ScanDynamic_BreakOnExpired(urls, i + 1, url_to_proxy, t, has_expired_match)

\* lines 182-202: the loop over the dict from position i on. It ends either
\* at the first matching rule that is not expired (idx) or past the last
\* item (idx = 0); expired tells whether has_expired_match is set by then.
RECURSIVE ScanDynamic(_, _, _, _, _)
ScanDynamic(urls, i, url_to_proxy, t, has_expired_match) ==
    IF i > Len(urls)
    THEN [idx |-> 0, expired |-> has_expired_match]
    ELSE IF urlmatch(urls[i].url_pattern, url_to_proxy)
         THEN IF IsExpired(urls[i], t)
              THEN ScanDynamic(urls, i + 1, url_to_proxy, t, TRUE)
              ELSE [idx |-> i, expired |-> has_expired_match]
         ELSE ScanDynamic(urls, i + 1, url_to_proxy, t, has_expired_match)

\* lines 204-205: position of the first static pattern that matches (0: none)
RECURSIVE ScanStatic(_, _, _)
ScanStatic(url_patterns, i, url_to_proxy) ==
    IF i > Len(url_patterns) THEN 0
    ELSE IF urlmatch(url_patterns[i], url_to_proxy) THEN i
         ELSE ScanStatic(url_patterns, i + 1, url_to_proxy)

\* faulty variant: ssl_verification read without its default of True
StaticSslContext_NoDefault(opts) ==
    SslContextFor(OptionsGet(opts, "ssl_verification", FALSE),
                  OptionsGet(opts, "ssl_ciphers", "None"))

\* lines 206-214: the ssl_context of a static authorization
StaticSslContext(opts) ==
    LET ssl_cipher == OptionsGet(opts, "ssl_ciphers", "None")
        ssl_verification == OptionsGet(opts, "ssl_verification", TRUE)
    IN  SslContextFor(ssl_verification, ssl_cipher)

\* faulty variant: the expired match is forgotten
Denial_AlwaysNotFound(has_expired_match) == "NotFound"

\* lines 216-218
Denial(has_expired_match) == IF has_expired_match THEN "Expired" ELSE "NotFound"

Outcome(result, url, by, url_id, pos, ssl_context, urls) ==
    [result |-> result, url |-> url, by |-> by, url_id |-> url_id, pos |-> pos,
     ssl_context |-> ssl_context, urls |-> urls]

\* faulty variant: the static patterns are tried before the dynamic rules
get_proxied_url_StaticFirst(request, urls, opts, t) ==
    IF ~request.has_url
    THEN Outcome("NotFound", NoUrl, "none", "", 0, NoSsl, urls)
    ELSE LET url_to_proxy == unquote(request.url)
             dyn == ScanDynamic(urls, 1, url_to_proxy, t, FALSE)
             st == ScanStatic(OptionsGet(opts, "url_patterns", <<>>), 1, url_to_proxy)
         IN  IF st # 0
             THEN Outcome("Authorized", url_to_proxy, "static", "", st,
                          StaticSslContext(opts), urls)
             ELSE IF dyn.idx # 0
             THEN Outcome("Authorized", url_to_proxy, "dynamic", urls[dyn.idx].url_id,
                          dyn.idx,
                          SslContextFor(urls[dyn.idx].ssl_verification,
                                        urls[dyn.idx].ssl_ciphers),
                          UseRule(urls, dyn.idx))
             ELSE Outcome(Denial(dyn.expired), NoUrl, "none", "", 0, NoSsl, urls)

\* _get_proxied_url as one synchronous call: what it returns or raises, and
\* the dict it leaves
get_proxied_url(request, urls, opts, t) ==
    IF ~request.has_url
    THEN Outcome("NotFound", NoUrl, "none", "", 0, NoSsl, urls)
    ELSE LET url_to_proxy == unquote(request.url)
             dyn == ScanDynamic(urls, 1, url_to_proxy, t, FALSE)
             st == ScanStatic(OptionsGet(opts, "url_patterns", <<>>), 1, url_to_proxy)
         IN  IF dyn.idx # 0
             THEN Outcome("Authorized", url_to_proxy, "dynamic", urls[dyn.idx].url_id,
                          dyn.idx,
                          SslContextFor(urls[dyn.idx].ssl_verification,
                                        urls[dyn.idx].ssl_ciphers),
                          UseRule(urls, dyn.idx))
             ELSE IF st # 0
             THEN Outcome("Authorized", url_to_proxy, "static", "", st,
                          StaticSslContext(opts), urls)
             ELSE Outcome(Denial(dyn.expired), NoUrl, "none", "", 0, NoSsl, urls)

---------------------------------------------------------------------------
(* The calls as atomic steps *)

Last(op, result, url, by, url_id, pos, ssl_context) ==
    [op |-> op, result |-> result, url |-> url, by |-> by, url_id |-> url_id,
     pos |-> pos, ssl_context |-> ssl_context]

NoUse == [limit0 |-> 0, granted |-> 0]

\* the request handlers and executor threads of the statement-level view
Requests == {"r1", "r2"}
Threads == {"t1"}

NoRule ==
    [url_id |-> "", url_pattern |-> NoUrl, ssl_verification |-> FALSE,
     ssl_ciphers |-> "-", open_limit |-> 0, expiration |-> 0]

\* proxied_url: the loop variable refers to an object; while the dict holds
\* that object under url_id (attached) its fields are the item's, afterwards
\* they are kept in obj
NoCur == [url_id |-> "", attached |-> FALSE, obj |-> NoRule]

NoQuery == [has_url |-> FALSE, url |-> NoUrl]

ReqIdle ==
    [pc |-> "idle", query |-> NoQuery, seen |-> <<>>, url |-> NoUrl,
     has_expired_match |-> FALSE, pos |-> 0, used |-> 0, left |-> 0,
     cur |-> NoCur, result |-> "-", ssl_context |-> NoSsl, visited |-> <<>>]

CallIdle == [pc |-> "idle", url_id |-> "", result |-> "-"]

Init ==
    /\ dynamic_proxied_urls = <<>>
    /\ options \in OptionsSet
    /\ now = 1
    /\ last = Last("setup", "ok", NoUrl, "none", "", 0, NoSsl)
    /\ uses = [i \in UrlIds |-> NoUse]
    /\ reqs = [r \in Requests |-> ReqIdle]
    /\ calls = [c \in Threads |-> CallIdle]
    /\ services = OptionsGet(options, "dynamic_urls", FALSE)

\* async_setup_entry when Home Assistant starts with these options: a fresh
\* registry, and the services registered when dynamic_urls is set (line 129)
SetupEntry ==
    /\ \E o \in OptionsSet :
        /\ options' = o
        /\ services' = OptionsGet(o, "dynamic_urls", FALSE)
    /\ dynamic_proxied_urls' = <<>>
    /\ last' = Last("setup", "ok", NoUrl, "none", "", 0, NoSsl)
    /\ uses' = [i \in UrlIds |-> NoUse]
    /\ UNCHANGED <<now, reqs, calls>>

\* the create_proxied_url service, called with this service data
CreateCall(call, uuid4) ==
    /\ services
    /\ dynamic_proxied_urls' = create_proxied_url(dynamic_proxied_urls, call, uuid4, now)
    /\ last' = Last("create", "ok", NoUrl, "none", CallUrlId(call, uuid4), 0, NoSsl)
    /\ uses' = [uses EXCEPT ![CallUrlId(call, uuid4)] =
                    [limit0 |-> call.open_limit, granted |-> 0]]
    /\ UNCHANGED <<options, services, now, reqs, calls>>

\* uuid.uuid4() gives an id that is not in the dict
Create ==
    \E call \in CreateCalls, uuid4 \in Uuids :
        /\ call.url_id # "" \/ uuid4 \notin Keys(dynamic_proxied_urls)
        /\ CreateCall(call, uuid4)

\* the delete_proxied_url service, called with this url_id
DeleteId(url_id) ==
    /\ services
    /\ dynamic_proxied_urls' = delete_proxied_url(dynamic_proxied_urls, url_id)
    /\ last' = Last("delete",
                    IF DeleteRaises(dynamic_proxied_urls, url_id)
                    THEN "RuleNotFound" ELSE "ok",
                    NoUrl, "none", url_id, 0, NoSsl)
    /\ uses' = IF DeleteRaises(dynamic_proxied_urls, url_id) THEN uses
               ELSE [uses EXCEPT ![url_id] = NoUse]
    /\ UNCHANGED <<options, services, now, reqs, calls>>

Delete == \E url_id \in UrlIds : DeleteId(url_id)

\* a request to the proxy view with this query
AuthorizeReq(request) ==
    LET r == get_proxied_url(request, dynamic_proxied_urls, options, now)
    IN  /\ dynamic_proxied_urls' = r.urls
        /\ last' = Last("authorize", r.result, r.url, r.by, r.url_id, r.pos,
                        r.ssl_context)
        /\ uses' = IF r.by = "dynamic" /\ uses[r.url_id].limit0 # 0
                   THEN [uses EXCEPT ![r.url_id].granted = @ + 1]
                   ELSE uses
        /\ UNCHANGED <<options, services, now, reqs, calls>>

Authorize == \E request \in Queries : AuthorizeReq(request)

\* time passes
Tick ==
    /\ now < MaxTime
    /\ now' = now + 1
    /\ UNCHANGED <<dynamic_proxied_urls, options, services, last, uses, reqs, calls>>

Next == SetupEntry \/ Create \/ Delete \/ Authorize \/ Tick

Spec == Init /\ [][Next]_vars

---------------------------------------------------------------------------
(* The entry's options are changed while Home Assistant runs *)

\* The update listener async_reload_entry reloads the entry after its
\* options were replaced: async_unload_entry removes the services when the
\* options, by then the new ones, set dynamic_urls (line 147), and
\* async_setup_entry makes a fresh registry and registers the services when
\* they set it (line 129). The registered handlers reach the registry
\* through entry.runtime_data, so they act on the fresh one.
ReloadEntry ==
    /\ \E o \in OptionsSet :
        /\ options' = o
        /\ services' = IF OptionsGet(o, "dynamic_urls", FALSE) THEN TRUE ELSE services
    /\ dynamic_proxied_urls' = <<>>
    /\ last' = Last("setup", "ok", NoUrl, "none", "", 0, NoSsl)
    /\ uses' = [i \in UrlIds |-> NoUse]
    /\ UNCHANGED <<now, reqs, calls>>

NextEntry == ReloadEntry \/ Create \/ Delete \/ Authorize \/ Tick

\* the calls as atomic steps, with changes of the options
SpecEntry == Init /\ [][NextEntry]_vars

---------------------------------------------------------------------------
(* The ssl settings: rules and options over every value of the schema *)

\* entry.options with each ssl_ciphers value, and ssl_verification set to
\* either value or not set
SslOptionsSet ==
    {[keys |-> {"dynamic_urls", "url_patterns", "ssl_ciphers"} \cup k,
      dynamic_urls |-> TRUE, url_patterns |-> <<PatY>>,
      ssl_ciphers |-> c, ssl_verification |-> v] :
        c \in SslCiphers, v \in BOOLEAN, k \in {{}, {"ssl_verification"}}}

\* create calls with each (ssl_verification, ssl_ciphers) pair
SslCreateCalls ==
    {[url_id |-> "a", url_pattern |-> PatP, ssl_verification |-> v, ssl_ciphers |-> c,
      open_limit |-> n, time_to_live |-> 0] :
        v \in BOOLEAN, c \in SslCiphers, n \in {0, 1}}

InitSsl ==
    /\ dynamic_proxied_urls = <<>>
    /\ options \in SslOptionsSet
    /\ now = 1
    /\ last = Last("setup", "ok", NoUrl, "none", "", 0, NoSsl)
    /\ uses = [i \in UrlIds |-> NoUse]
    /\ reqs = [r \in Requests |-> ReqIdle]
    /\ calls = [c \in Threads |-> CallIdle]
    /\ services = OptionsGet(options, "dynamic_urls", FALSE)

NextSsl ==
    \/ \E call \in SslCreateCalls, uuid4 \in Uuids : CreateCall(call, uuid4)
    \/ Authorize

\* creates and requests over every ssl setting
SpecSsl == InitSsl /\ [][NextSsl]_vars

---------------------------------------------------------------------------
(* _get_proxied_url statement by statement *)

\* the handler of r is inside _get_proxied_url
Scanning(r) == reqs[r].pc \in {"for", "limit", "dec", "del", "ret", "static"}

\* faulty variant: a suspension point inside _get_proxied_url
LoopFree_Yields(r) == TRUE

\* _get_proxied_url is a plain function without await: once the event loop
\* has entered it, no other request handler runs until it has returned
LoopFree(r) == \A o \in Requests \ {r} : ~Scanning(o)

\* the object the loop variable proxied_url of request q refers to
CurObj(q, urls) ==
    IF q.cur.attached THEN Item(urls, q.cur.url_id) ELSE q.cur.obj

\* the locals of the handlers after del urls[url_id]: a loop variable that
\* referred to the removed object keeps it, and a dict iterator that had
\* passed the removed item stands one item earlier
AfterDel(rq, urls, url_id) ==
    [x \in Requests |->
        [rq[x] EXCEPT
            !.cur = IF @.attached /\ @.url_id = url_id
                    THEN [url_id |-> url_id, attached |-> FALSE,
                          obj |-> Item(urls, url_id)]
                    ELSE @,
            !.pos = IF IndexOf(urls, url_id) < @ THEN @ - 1 ELSE @]]

\* the locals of the handlers after urls[url_id] = a new object
AfterSet(rq, urls, url_id) ==
    [x \in Requests |->
        [rq[x] EXCEPT
            !.cur = IF @.attached /\ @.url_id = url_id
                    THEN [url_id |-> url_id, attached |-> FALSE,
                          obj |-> Item(urls, url_id)]
                    ELSE @]]

\* the handler has returned or raised: its locals are gone
Finish(q, result, ssl_context) ==
    [ReqIdle EXCEPT !.pc = "done", !.query = q.query, !.seen = q.seen,
                    !.result = result, !.ssl_context = ssl_context]

\* a request arrives; seen records the registry at that moment (history)
Arrive(r, queries, snapshot) ==
    /\ reqs[r].pc = "idle"
    /\ \E query \in queries :
        reqs' = [reqs EXCEPT ![r] =
                    [ReqIdle EXCEPT !.pc = "pending", !.query = query,
                                    !.seen = IF snapshot THEN dynamic_proxied_urls
                                             ELSE <<>>]]
    /\ UNCHANGED <<dynamic_proxied_urls, options, services, now, last, uses, calls>>

\* lines 174-182: the url check, unquote, and the iterator over the dict
Begin(r) ==
    /\ reqs[r].pc = "pending"
    /\ LoopFree(r)
    /\ reqs' = [reqs EXCEPT ![r] =
                   IF ~@.query.has_url
                   THEN Finish(@, "NotFound", NoSsl)
                   ELSE [@ EXCEPT !.pc = "for",
                                  !.url = unquote(reqs[r].query.url),
                                  !.has_expired_match = FALSE,
                                  !.pos = 1,
                                  !.used = Len(dynamic_proxied_urls),
                                  !.left = Len(dynamic_proxied_urls)]]
    /\ UNCHANGED <<dynamic_proxied_urls, options, services, now, last, uses, calls>>

\* lines 182-190: the iterator's next item, the match and the expiry test.
\* The iterator raises RuntimeError when the dict has another size than at
\* its creation, or holds more items than it had left to give.
ForNext(r) ==
    /\ reqs[r].pc = "for"
    /\ LoopFree(r)
    /\ LET q == reqs[r]
           urls == dynamic_proxied_urls
       IN  reqs' = [reqs EXCEPT ![r] =
               IF Len(urls) # q.used THEN Finish(q, "RuntimeError", NoSsl)
               ELSE IF q.pos > Len(urls) THEN [q EXCEPT !.pc = "static"]
               ELSE IF q.left = 0 THEN Finish(q, "RuntimeError", NoSsl)
               ELSE LET stepped ==
                            [q EXCEPT !.pos = @ + 1, !.left = @ - 1,
                                      !.visited = Append(@, urls[q.pos].url_id),
                                      !.cur = [url_id |-> urls[q.pos].url_id,
                                               attached |-> TRUE, obj |-> NoRule]]
                    IN  IF ~urlmatch(urls[q.pos].url_pattern, q.url) THEN stepped
                        ELSE IF IsExpired(urls[q.pos], now)
                        THEN [stepped EXCEPT !.has_expired_match = TRUE]
                        ELSE [stepped EXCEPT !.pc = "limit"]]
    /\ UNCHANGED <<dynamic_proxied_urls, options, services, now, last, uses, calls>>

\* line 192: if proxied_url.open_limit
LimitTest(r) ==
    /\ reqs[r].pc = "limit"
    /\ LoopFree(r)
    /\ reqs' = [reqs EXCEPT ![r].pc =
                   IF CurObj(reqs[r], dynamic_proxied_urls).open_limit # 0
                   THEN "dec" ELSE "ret"]
    /\ UNCHANGED <<dynamic_proxied_urls, options, services, now, last, uses, calls>>

\* lines 193-194: proxied_url.open_limit -= 1 and the test for zero
Decrement(r) ==
    /\ reqs[r].pc = "dec"
    /\ LoopFree(r)
    /\ LET q == reqs[r]
           left == CurObj(q, dynamic_proxied_urls).open_limit - 1
           i == IndexOf(dynamic_proxied_urls, q.cur.url_id)
       IN  /\ dynamic_proxied_urls' =
                  IF q.cur.attached
                  THEN [dynamic_proxied_urls EXCEPT ![i].open_limit = left]
                  ELSE dynamic_proxied_urls
           /\ reqs' = [reqs EXCEPT
                  ![r].pc = IF left = 0 THEN "del" ELSE "ret",
                  ![r].cur.obj = IF q.cur.attached THEN @
                                 ELSE [@ EXCEPT !.open_limit = left]]
    /\ UNCHANGED <<options, services, now, last, uses, calls>>

\* line 195: del proxied_urls[url_id], KeyError when the key is gone
Remove(r) ==
    /\ reqs[r].pc = "del"
    /\ LoopFree(r)
    /\ LET q == reqs[r]
       IN  IF q.cur.url_id \notin Keys(dynamic_proxied_urls)
           THEN /\ reqs' = [reqs EXCEPT ![r] = Finish(q, "KeyError", NoSsl)]
                /\ UNCHANGED dynamic_proxied_urls
           ELSE /\ dynamic_proxied_urls' = DictDel(dynamic_proxied_urls, q.cur.url_id)
                /\ reqs' = [AfterDel(reqs, dynamic_proxied_urls, q.cur.url_id)
                               EXCEPT ![r].pc = "ret"]
    /\ UNCHANGED <<options, services, now, last, uses, calls>>

\* lines 197-202: return ProxiedURL(...)
Return(r) ==
    /\ reqs[r].pc = "ret"
    /\ LoopFree(r)
    /\ LET obj == CurObj(reqs[r], dynamic_proxied_urls)
       IN  reqs' = [reqs EXCEPT ![r] =
                       Finish(@, "Authorized",
                              SslContextFor(obj.ssl_verification, obj.ssl_ciphers))]
    /\ UNCHANGED <<dynamic_proxied_urls, options, services, now, last, uses, calls>>

\* lines 204-218: the static patterns, then the denial
StaticPass(r) ==
    /\ reqs[r].pc = "static"
    /\ LoopFree(r)
    /\ reqs' = [reqs EXCEPT ![r] =
                   IF ScanStatic(OptionsGet(options, "url_patterns", <<>>), 1, @.url) # 0
                   THEN Finish(@, "Authorized", StaticSslContext(options))
                   ELSE Finish(@, Denial(@.has_expired_match), NoSsl)]
    /\ UNCHANGED <<dynamic_proxied_urls, options, services, now, last, uses, calls>>

\* one statement of the handler of r
Handle(r) ==
    \/ Begin(r)
    \/ ForNext(r)
    \/ LimitTest(r)
    \/ Decrement(r)
    \/ Remove(r)
    \/ Return(r)
    \/ StaticPass(r)

\* a rule as the dict holds it
Rule(url_id, url_pattern, open_limit, expiration) ==
    [url_id |-> url_id, url_pattern |-> url_pattern, ssl_verification |-> TRUE,
     ssl_ciphers |-> "default", open_limit |-> open_limit, expiration |-> expiration]

\* registries that create calls at time 1 leave
LoopRegistries ==
    {<<>>,
     <<Rule("a", PatP, 1, 0)>>,
     <<Rule("a", PatX, 1, 2)>>,
     <<Rule("a", PatP, 0, 0)>>,
     <<Rule("a", PatX, 2, 2), Rule("u", PatP, 1, 0)>>,
     <<Rule("a", PatP, 2, 0), Rule("u", PatX, 1, 0)>>}

InitLoop ==
    /\ dynamic_proxied_urls \in LoopRegistries
    /\ options = OptionsDynamic
    /\ now = 1
    /\ last = Last("setup", "ok", NoUrl, "none", "", 0, NoSsl)
    /\ uses = [i \in UrlIds |-> NoUse]
    /\ reqs = [r \in Requests |-> ReqIdle]
    /\ calls = [c \in Threads |-> CallIdle]
    /\ services = OptionsGet(options, "dynamic_urls", FALSE)

NextLoop ==
    \/ \E r \in Requests : Arrive(r, Queries, TRUE)
    \/ \E r \in Requests : Handle(r)
    \/ Tick

\* request handlers on the event loop
SpecLoop == InitLoop /\ [][NextLoop]_vars

---------------------------------------------------------------------------
(* The service handlers on an executor thread *)

\* the calls the threads make
ThreadCreateCalls ==
    {[url_id |-> "a", url_pattern |-> PatP, ssl_verification |-> TRUE,
      ssl_ciphers |-> "default", open_limit |-> 1, time_to_live |-> 0],
     [url_id |-> "", url_pattern |-> PatP, ssl_verification |-> FALSE,
      ssl_ciphers |-> "modern", open_limit |-> 0, time_to_live |-> 1]}
ThreadQueries ==
    {[has_url |-> TRUE, url |-> [host |-> "x", path |-> "/p"]],
     [has_url |-> TRUE, url |-> [host |-> "z", path |-> "/q"]]}
ThreadRequests == {"r1"}

\* create_proxied_url, lines 105-114: one store into the dict
SvcCreate(c) ==
    /\ calls[c].pc = "idle"
    /\ services
    /\ \E call \in ThreadCreateCalls, uuid4 \in Uuids :
        /\ call.url_id # "" \/ uuid4 \notin Keys(dynamic_proxied_urls)
        /\ dynamic_proxied_urls' =
               create_proxied_url(dynamic_proxied_urls, call, uuid4, now)
        /\ reqs' = AfterSet(reqs, dynamic_proxied_urls, CallUrlId(call, uuid4))
        /\ calls' = [calls EXCEPT ![c] = [CallIdle EXCEPT !.result = "ok"]]
    /\ UNCHANGED <<options, services, now, last, uses>>

\* delete_proxied_url, lines 118-126: the membership test
SvcDeleteCheck(c) ==
    /\ calls[c].pc = "idle"
    /\ services
    /\ \E url_id \in UrlIds :
        calls' = [calls EXCEPT ![c] =
                     IF DeleteRaises(dynamic_proxied_urls, url_id)
                     THEN [CallIdle EXCEPT !.result = "RuleNotFound"]
                     ELSE [pc |-> "del", url_id |-> url_id, result |-> "-"]]
    /\ UNCHANGED <<dynamic_proxied_urls, options, services, now, last, uses, reqs>>

\* delete_proxied_url, line 127: the del, KeyError when the key is gone
SvcDeleteDo(c) ==
    /\ calls[c].pc = "del"
    /\ IF calls[c].url_id \notin Keys(dynamic_proxied_urls)
       THEN /\ calls' = [calls EXCEPT ![c] = [CallIdle EXCEPT !.result = "KeyError"]]
            /\ UNCHANGED <<dynamic_proxied_urls, reqs>>
       ELSE /\ dynamic_proxied_urls' = DictDel(dynamic_proxied_urls, calls[c].url_id)
            /\ reqs' = AfterDel(reqs, dynamic_proxied_urls, calls[c].url_id)
            /\ calls' = [calls EXCEPT ![c] = [CallIdle EXCEPT !.result = "ok"]]
    /\ UNCHANGED <<options, services, now, last, uses>>

InitThreads ==
    /\ dynamic_proxied_urls = <<>>
    /\ options = OptionsDynamic
    /\ now = 1
    /\ last = Last("setup", "ok", NoUrl, "none", "", 0, NoSsl)
    /\ uses = [i \in UrlIds |-> NoUse]
    /\ reqs = [r \in Requests |-> ReqIdle]
    /\ calls = [c \in Threads |-> CallIdle]
    /\ services = OptionsGet(options, "dynamic_urls", FALSE)

NextThreads ==
    \/ \E r \in ThreadRequests : Arrive(r, ThreadQueries, FALSE)
    \/ \E r \in ThreadRequests : Handle(r)
    \/ \E c \in Threads : SvcCreate(c)
    \/ \E c \in Threads : SvcDeleteCheck(c)
    \/ \E c \in Threads : SvcDeleteDo(c)
    \/ Tick

\* request handlers on the event loop, service handlers on an executor thread
SpecThreads == InitThreads /\ [][NextThreads]_vars

---------------------------------------------------------------------------
(* What a scan should decide, stated over the registry as a set *)

\* the rule's expiration time is set and has passed at time t
Lapsed(rule, t) == rule.expiration # 0 /\ rule.expiration < t

\* the times from now on that the checks look at
Horizon == MaxTime + 2

\* positions of the dynamic rules whose pattern matches url
Matches(urls, url) ==
    {i \in 1..Len(urls) : urlmatch(urls[i].url_pattern, url)}

ValidMatches(urls, url, t) ==
    {i \in Matches(urls, url) : ~Lapsed(urls[i], t)}

ExpiredMatches(urls, url, t) ==
    {i \in Matches(urls, url) : Lapsed(urls[i], t)}

StaticMatches(opts, url) ==
    IF "url_patterns" \in opts.keys
    THEN {i \in 1..Len(opts.url_patterns) : urlmatch(opts.url_patterns[i], url)}
    ELSE {}

\* the step is the request to the view with this query
Requested(request) ==
    last'.op = "authorize" /\ now' = now /\ options' = options /\ AuthorizeReq(request)

---------------------------------------------------------------------------
(* C1 *)

\* C1: authorize succeeds if and only if a dynamic rule that matches the URL
\* is not expired or a static rule matches it, wherever expired matching
\* rules sit in the registry; with a valid match it never ends Expired.
C1_AuthorizedIffValidMatch ==
    [][\A request \in Queries :
        (request.has_url /\ Requested(request)) =>
            LET url == unquote(request.url)
                valid == \/ ValidMatches(dynamic_proxied_urls, url, now) # {}
                         \/ StaticMatches(options, url) # {}
            IN  /\ (last'.result = "Authorized") <=> valid
                /\ valid => last'.result # "Expired"]_vars

\* an authorization by a dynamic rule that sits behind an expired rule
\* matching the same URL
C1_Witness ==
    /\ last.op = "authorize" /\ last.result = "Authorized" /\ last.by = "dynamic"
    /\ \E i \in 1..Len(dynamic_proxied_urls) :
        /\ i < last.pos
        /\ urlmatch(dynamic_proxied_urls[i].url_pattern, last.url)
        /\ Lapsed(dynamic_proxied_urls[i], now)

---------------------------------------------------------------------------
(* C2 *)

\* both requests were in flight over the registry seen, in which exactly one
\* dynamic rule, with open_limit 1 and not expired, matches both URLs, and
\* no static pattern does
RaceForLastUse(r1, r2) ==
    LET q1 == reqs[r1]
        q2 == reqs[r2]
    IN  /\ r1 # r2
        /\ q1.pc = "done" /\ q2.pc = "done"
        /\ q1.query.has_url /\ q2.query.has_url
        /\ q1.seen = q2.seen
        /\ \E i \in 1..Len(q1.seen) :
            /\ Matches(q1.seen, unquote(q1.query.url)) = {i}
            /\ Matches(q1.seen, unquote(q2.query.url)) = {i}
            /\ q1.seen[i].open_limit = 1
            /\ ~Lapsed(q1.seen[i], now)
        /\ StaticMatches(options, unquote(q1.query.url)) = {}
        /\ StaticMatches(options, unquote(q2.query.url)) = {}

\* C2: two requests in flight together for a URL that only one dynamic rule
\* with open_limit 1 matches end, however their handlers are scheduled, with
\* one Authorized and one NotFound, never with two Authorized.
C2_OneGrantOneNotFound ==
    \A r1, r2 \in Requests :
        RaceForLastUse(r1, r2) =>
            \/ reqs[r1].result = "Authorized" /\ reqs[r2].result = "NotFound"
            \/ reqs[r1].result = "NotFound" /\ reqs[r2].result = "Authorized"

\* such a race has ended with the later arrival authorized
C2_Witness ==
    /\ RaceForLastUse("r1", "r2")
    /\ reqs["r1"].result = "NotFound"
    /\ reqs["r2"].result = "Authorized"
    /\ Len(reqs["r1"].seen) = 2

---------------------------------------------------------------------------
(* C9 *)

\* C9: creates and deletes are serialized against scans: no service call
\* changes the dict while a handler is inside _get_proxied_url, every scan
\* ends Authorized, NotFound or Expired, and every delete ends with the item
\* removed or with RuleNotFound.
C9_Serialized ==
    /\ [](/\ \A r \in Requests :
              reqs[r].pc = "done" =>
                  reqs[r].result \in {"Authorized", "NotFound", "Expired"}
          /\ \A c \in Threads : calls[c].result \in {"-", "ok", "RuleNotFound"})
    /\ [][(calls' # calls /\ dynamic_proxied_urls' # dynamic_proxied_urls) =>
              \A r \in Requests : ~Scanning(r)]_vars

---------------------------------------------------------------------------
(* C3 *)

\* C3: a rule created with open_limit n > 0 holds n minus the number of
\* authorizations it has granted, is never stored with open_limit 0 (it
\* leaves the registry with its n-th grant), and grants at most n.
C3_OpenLimitCountsDown ==
    \A id \in UrlIds :
        uses[id].limit0 > 0 =>
            /\ uses[id].granted <= uses[id].limit0
            /\ id \in Keys(dynamic_proxied_urls) =>
                /\ Item(dynamic_proxied_urls, id).open_limit >= 1
                /\ Item(dynamic_proxied_urls, id).open_limit =
                       uses[id].limit0 - uses[id].granted
            /\ id \notin Keys(dynamic_proxied_urls) =>
                uses[id].granted = uses[id].limit0

\* a rule created with open_limit 2 has just granted its second
\* authorization and is gone
C3_Witness ==
    /\ last.op = "authorize" /\ last.by = "dynamic"
    /\ uses[last.url_id] = [limit0 |-> 2, granted |-> 2]
    /\ last.url_id \notin Keys(dynamic_proxied_urls)

---------------------------------------------------------------------------
(* C4 *)

\* C4: a denied request ends Expired exactly when the URL parameter is
\* present and a dynamic rule matching it was expired at that time, and
\* NotFound otherwise.
C4_DenialKind ==
    [][\A request \in Queries :
        (Requested(request) /\ last'.result # "Authorized") =>
            last'.result =
                IF /\ request.has_url
                   /\ ExpiredMatches(dynamic_proxied_urls, unquote(request.url), now) # {}
                THEN "Expired" ELSE "NotFound"]_vars

\* a request denied Expired over a registry whose first rule is not expired
C4_Witness ==
    /\ last.op = "authorize" /\ last.result = "Expired"
    /\ Len(dynamic_proxied_urls) = 2
    /\ ~Lapsed(dynamic_proxied_urls[1], now)
    /\ Lapsed(dynamic_proxied_urls[2], now)

---------------------------------------------------------------------------
(* C5 *)

\* C5: a rule that is expired never authorizes a request, and neither a
\* request nor the passing of time removes or changes it.
C5_ExpiredRuleInert ==
    [][\A i \in 1..Len(dynamic_proxied_urls) :
        Lapsed(dynamic_proxied_urls[i], now) =>
            LET rule == dynamic_proxied_urls[i]
                requested == \E request \in Queries : Requested(request)
            IN  /\ requested => ~(last'.by = "dynamic" /\ last'.url_id = rule.url_id)
                /\ (requested \/ now' # now) =>
                    /\ rule.url_id \in Keys(dynamic_proxied_urls')
                    /\ Item(dynamic_proxied_urls', rule.url_id) = rule]_vars

\* a request for a URL that an expired rule with uses left matches was
\* authorized, and the expired rule is still there
C5_Witness ==
    /\ last.op = "authorize" /\ last.result = "Authorized"
    /\ \E i \in 1..Len(dynamic_proxied_urls) :
        /\ Lapsed(dynamic_proxied_urls[i], now)
        /\ dynamic_proxied_urls[i].open_limit = 2
        /\ urlmatch(dynamic_proxied_urls[i].url_pattern, last.url)

---------------------------------------------------------------------------
(* C6 *)

\* url is matched by the rule under url_id and by no other rule
OnlyRule(urls, opts, url_id, url) ==
    /\ Matches(urls, url) = {i \in 1..Len(urls) : urls[i].url_id = url_id}
    /\ Matches(urls, url) # {}
    /\ StaticMatches(opts, url) = {}

\* C6: with its n-th grant a rule created with open_limit n > 0 leaves the
\* registry, and from then on a request for a URL that only it matched is
\* denied NotFound at every later time.
C6_ExhaustedThenNotFound ==
    [][\A request \in Queries :
        (/\ Requested(request)
         /\ last'.by = "dynamic"
         /\ uses'[last'.url_id].limit0 > 0
         /\ uses'[last'.url_id].granted = uses'[last'.url_id].limit0) =>
            /\ last'.url_id \notin Keys(dynamic_proxied_urls')
            /\ \A later \in Queries, t \in now..Horizon :
                (/\ later.has_url
                 /\ OnlyRule(dynamic_proxied_urls, options, last'.url_id,
                             unquote(later.url))) =>
                    get_proxied_url(later, dynamic_proxied_urls', options, t).result
                        = "NotFound"]_vars

\* a rule that expires has granted its last use, and the next request for
\* the same URL, made after its expiration time, was denied NotFound
C6_Witness ==
    /\ last.op = "authorize" /\ last.result = "NotFound"
    /\ now = MaxTime
    /\ dynamic_proxied_urls = <<>>
    /\ \E id \in UrlIds : uses[id] = [limit0 |-> 2, granted |-> 2]

---------------------------------------------------------------------------
(* C7 *)

\* C7: a rule stored with open_limit 0 is left as it is by every request,
\* also by the requests it authorizes, and by the passing of time.
C7_UnlimitedRuleStays ==
    [][\A i \in 1..Len(dynamic_proxied_urls) :
        (/\ dynamic_proxied_urls[i].open_limit = 0
         /\ (now' # now \/ \E request \in Queries : Requested(request))) =>
            /\ dynamic_proxied_urls[i].url_id \in Keys(dynamic_proxied_urls')
            /\ Item(dynamic_proxied_urls', dynamic_proxied_urls[i].url_id)
                   = dynamic_proxied_urls[i]]_vars

\* an unlimited rule has authorized a request and is still there
C7_Witness ==
    /\ last.op = "authorize" /\ last.by = "dynamic"
    /\ last.url_id \in Keys(dynamic_proxied_urls)
    /\ Item(dynamic_proxied_urls, last.url_id).open_limit = 0

---------------------------------------------------------------------------
(* C8 *)

\* what the rules of a registry decide for a request at time t
Decision(urls, opts, request, t) ==
    IF ~request.has_url THEN "NotFound"
    ELSE IF \/ ValidMatches(urls, unquote(request.url), t) # {}
            \/ StaticMatches(opts, unquote(request.url)) # {}
    THEN "Authorized"
    ELSE IF ExpiredMatches(urls, unquote(request.url), t) # {}
    THEN "Expired" ELSE "NotFound"

\* the items of the dict without the one under url_id, in their order
Without(urls, url_id) ==
    LET Other(item) == item.url_id # url_id
    IN  SelectSeq(urls, Other)

\* C8: deleting an id that is not in the registry raises RuleNotFound and
\* changes nothing; deleting one that is removes that item and no other,
\* and every request is then decided by the remaining rules alone.
C8_DeleteCorrect ==
    [][\A id \in UrlIds :
        (last'.op = "delete" /\ DeleteId(id)) =>
            IF id \notin Keys(dynamic_proxied_urls)
            THEN /\ last'.result = "RuleNotFound"
                 /\ dynamic_proxied_urls' = dynamic_proxied_urls
            ELSE /\ last'.result = "ok"
                 /\ dynamic_proxied_urls' = Without(dynamic_proxied_urls, id)
                 /\ \A request \in Queries, t \in now..Horizon :
                     LET r == get_proxied_url(request, dynamic_proxied_urls', options, t)
                     IN  /\ ~(r.by = "dynamic" /\ r.url_id = id)
                         /\ r.result = Decision(Without(dynamic_proxied_urls, id),
                                                options, request, t)]_vars

\* a delete has removed one of two rules
C8_Witness ==
    /\ last.op = "delete" /\ last.result = "ok"
    /\ Len(dynamic_proxied_urls) = 1
    /\ last.url_id \notin Keys(dynamic_proxied_urls)

---------------------------------------------------------------------------
(* C10 *)

\* C10: when no dynamic rule authorizes, the first static pattern that
\* matches does, with the ssl settings of the entry's options
\* (ssl_verification True when not set); the registry is not touched, so the
\* request succeeds again at any later time, expired dynamic match or not.
C10_StaticFallback ==
    [][\A request \in Queries :
        LET url == unquote(request.url)
        IN  (/\ request.has_url
             /\ Requested(request)
             /\ ValidMatches(dynamic_proxied_urls, url, now) = {}
             /\ StaticMatches(options, url) # {}) =>
                /\ last'.result = "Authorized" /\ last'.by = "static" /\ last'.url = url
                /\ last'.pos \in StaticMatches(options, url)
                /\ \A j \in StaticMatches(options, url) : last'.pos <= j
                /\ last'.ssl_context.verify =
                       IF "ssl_verification" \in options.keys
                       THEN options.ssl_verification ELSE TRUE
                /\ last'.ssl_context.ciphers =
                       IF options.ssl_ciphers = "default"
                       THEN "PYTHON_DEFAULT" ELSE options.ssl_ciphers
                /\ dynamic_proxied_urls' = dynamic_proxied_urls
                /\ \A t \in now..Horizon :
                    LET again == get_proxied_url(request, dynamic_proxied_urls',
                                                 options, t)
                    IN  again.result = "Authorized" /\ again.by = "static"]_vars

\* a static authorization, verifying by default, of a URL that an expired
\* dynamic rule matches, by the second static pattern
C10_Witness ==
    /\ last.op = "authorize" /\ last.result = "Authorized" /\ last.by = "static"
    /\ last.pos = 2
    /\ "ssl_verification" \notin options.keys
    /\ last.ssl_context.verify
    /\ \E i \in 1..Len(dynamic_proxied_urls) :
        /\ Lapsed(dynamic_proxied_urls[i], now)
        /\ urlmatch(dynamic_proxied_urls[i].url_pattern, last.url)

---------------------------------------------------------------------------
(* C11 *)

\* C11: a create with time_to_live > 0 stores expiration = time of the call
\* + time_to_live, and one with time_to_live = 0 stores expiration 0; a rule
\* with expiration 0 authorizes at every later time, and a rule with
\* expiration e # 0 is treated as expired at time t exactly when e < t, so
\* that at t = e it still authorizes.
C11_Expiration ==
    [][\A call \in CreateCalls, uuid4 \in Uuids :
        (/\ last'.op = "create" /\ last'.url_id = CallUrlId(call, uuid4)
         /\ now' = now
         /\ CreateCall(call, uuid4)) =>
            LET id == CallUrlId(call, uuid4)
                e == Item(dynamic_proxied_urls', id).expiration
            IN  /\ e = IF call.time_to_live > 0 THEN now + call.time_to_live ELSE 0
                /\ \A request \in Queries, t \in now..Horizon :
                    (/\ request.has_url
                     /\ OnlyRule(dynamic_proxied_urls', options, id,
                                 unquote(request.url))) =>
                        get_proxied_url(request, dynamic_proxied_urls', options, t).result
                            = IF e # 0 /\ e < t THEN "Expired" ELSE "Authorized"]_vars

\* a rule created after the clock has advanced, with a time to live, is the
\* only rule of the registry
C11_Witness ==
    /\ last.op = "create"
    /\ now = 2
    /\ Len(dynamic_proxied_urls) = 1
    /\ dynamic_proxied_urls[1].expiration = 3
    /\ dynamic_proxied_urls[1].url_id = last.url_id

---------------------------------------------------------------------------
(* C12 *)

\* C12: the ids of the registry are unique, and a create with an explicit id
\* that is in the registry overwrites: afterwards the registry has as many
\* items as before, one item under that id, whose pattern, ssl settings,
\* open_limit and expiration are those of this call, and every other item
\* is as it was.
C12_OverwriteLastWriterWins ==
    [][/\ \A i, j \in 1..Len(dynamic_proxied_urls') :
            dynamic_proxied_urls'[i].url_id = dynamic_proxied_urls'[j].url_id => i = j
       /\ \A call \in CreateCalls, uuid4 \in Uuids :
            (/\ call.url_id \in Keys(dynamic_proxied_urls)
             /\ last'.op = "create" /\ now' = now
             /\ CreateCall(call, uuid4)) =>
                /\ Len(dynamic_proxied_urls') = Len(dynamic_proxied_urls)
                /\ Cardinality({i \in 1..Len(dynamic_proxied_urls') :
                        dynamic_proxied_urls'[i].url_id = call.url_id}) = 1
                /\ Item(dynamic_proxied_urls', call.url_id) =
                       [url_id |-> call.url_id,
                        url_pattern |-> call.url_pattern,
                        ssl_verification |-> call.ssl_verification,
                        ssl_ciphers |-> call.ssl_ciphers,
                        open_limit |-> call.open_limit,
                        expiration |-> IF call.time_to_live > 0
                                       THEN now + call.time_to_live ELSE 0]
                /\ \A o \in Keys(dynamic_proxied_urls) \ {call.url_id} :
                    /\ o \in Keys(dynamic_proxied_urls')
                    /\ Item(dynamic_proxied_urls', o) = Item(dynamic_proxied_urls, o)]_vars

\* a create has overwritten the rule under "a" while another rule, created
\* after the first "a", is in the registry
C12_Witness ==
    /\ last.op = "create" /\ last.url_id = "a"
    /\ Len(dynamic_proxied_urls) = 2
    /\ dynamic_proxied_urls[1].url_id = "a"
    /\ dynamic_proxied_urls[1].open_limit = 2
    /\ dynamic_proxied_urls[1].expiration = 4

---------------------------------------------------------------------------
(* C13 *)

\* C13: when dynamic rules that match the URL are not expired, the first of
\* them in registry order authorizes, whether or not a static pattern
\* matches too: the ssl context is built from that rule's ssl_verification
\* and ssl_ciphers, a limited rule loses one use (and leaves the registry
\* with its last), and no other rule is changed.
C13_FirstValidMatchWins ==
    [][\A request \in Queries :
        (request.has_url /\ Requested(request)) =>
            LET urls == dynamic_proxied_urls
                valid == ValidMatches(urls, unquote(request.url), now)
            IN  valid # {} =>
                \E w \in valid :
                    /\ \A j \in valid : w <= j
                    /\ last'.result = "Authorized" /\ last'.by = "dynamic"
                    /\ last'.pos = w /\ last'.url_id = urls[w].url_id
                    /\ last'.ssl_context.verify = urls[w].ssl_verification
                    /\ last'.ssl_context.ciphers =
                           IF urls[w].ssl_ciphers = "default"
                           THEN "PYTHON_DEFAULT" ELSE urls[w].ssl_ciphers
                    /\ \A j \in 1..Len(urls) :
                        j # w =>
                            /\ urls[j].url_id \in Keys(dynamic_proxied_urls')
                            /\ Item(dynamic_proxied_urls', urls[j].url_id) = urls[j]
                    /\ urls[w].open_limit = 1 =>
                           urls[w].url_id \notin Keys(dynamic_proxied_urls')
                    /\ urls[w].open_limit > 1 =>
                           /\ urls[w].url_id \in Keys(dynamic_proxied_urls')
                           /\ Item(dynamic_proxied_urls', urls[w].url_id) =
                                  [urls[w] EXCEPT !.open_limit = @ - 1]]_vars

\* the first of two rules that match the URL and are not expired has
\* authorized it and lost a use, and a static pattern matches the URL too
C13_Witness ==
    /\ last.op = "authorize" /\ last.by = "dynamic" /\ last.pos = 1
    /\ Len(dynamic_proxied_urls) = 2
    /\ dynamic_proxied_urls[1].url_id = last.url_id
    /\ uses[last.url_id] = [limit0 |-> 2, granted |-> 1]
    /\ ValidMatches(dynamic_proxied_urls, last.url, now) = {1, 2}
    /\ StaticMatches(options, last.url) # {}

---------------------------------------------------------------------------
(* C14 *)

\* the keys of the dict in iteration order
Ids(urls) == [i \in 1..Len(urls) |-> urls[i].url_id]

\* a scan of the registry the step leaves gives a URL to the first, in
\* iteration order, of the rules that match it and are not expired
ScannedInOrder ==
    \A request \in Queries :
        request.has_url =>
            LET r == get_proxied_url(request, dynamic_proxied_urls', options', now')
            IN  \A i \in ValidMatches(dynamic_proxied_urls', unquote(request.url), now') :
                    r.by = "dynamic" /\ r.pos <= i

\* a delete or a request leaves the remaining keys in their order
OrderKept ==
    /\ (last'.op = "delete" /\ now' = now) =>
           Ids(dynamic_proxied_urls') = Ids(Without(dynamic_proxied_urls, last'.url_id))
    /\ (\E request \in Queries : Requested(request)) =>
           \/ Ids(dynamic_proxied_urls') = Ids(dynamic_proxied_urls)
           \/ /\ last'.by = "dynamic"
              /\ Ids(dynamic_proxied_urls') =
                     Ids(Without(dynamic_proxied_urls, last'.url_id))

\* C14 as claimed: the registry is scanned in the order of the create calls
\* that inserted the stored rules: the rule a create stores, also one that
\* overwrites an id, is scanned after every other rule, and deletes and
\* requests keep the order of the rules that remain.
C14_ScannedInCreateOrder ==
    [][/\ ScannedInOrder
       /\ OrderKept
       /\ (last'.op = "create" /\ now' = now) =>
              Ids(dynamic_proxied_urls') =
                  Append(Ids(Without(dynamic_proxied_urls, last'.url_id)),
                         last'.url_id)]_vars

\* C14 amended: the registry is scanned in the order in which its ids
\* entered it: a create under a new id puts the rule last, a create that
\* overwrites an id leaves every id at its position, and deletes and
\* requests keep the order of the rules that remain.
C14_ScannedInKeyOrder ==
    [][/\ ScannedInOrder
       /\ OrderKept
       /\ (last'.op = "create" /\ now' = now) =>
              Ids(dynamic_proxied_urls') =
                  IF last'.url_id \in Keys(dynamic_proxied_urls)
                  THEN Ids(dynamic_proxied_urls)
                  ELSE Append(Ids(dynamic_proxied_urls), last'.url_id)]_vars

\* the rule under "a" was overwritten while a rule created after the first
\* "a" is in the registry, both match the same URLs, and "a" is scanned first
C14_Witness ==
    /\ last.op = "create" /\ last.url_id = "a"
    /\ Ids(dynamic_proxied_urls) = <<"a", "u">>
    /\ dynamic_proxied_urls[1].url_pattern = dynamic_proxied_urls[2].url_pattern
    /\ dynamic_proxied_urls[1].expiration = 0
    /\ dynamic_proxied_urls[2].expiration = 0

---------------------------------------------------------------------------
(* C15 *)

\* C15: the ssl context of an authorization is determined by the
\* ssl_verification and ssl_ciphers of what authorized (the rule, or the
\* options for a static pattern) and by nothing else: "default" gives the
\* runtime's default cipher list and every other value is passed through,
\* ssl_verification gives a verifying or a non-verifying context, for each
\* of the eight combinations.
C15_TlsPolicy ==
    [][/\ \A v \in BOOLEAN, c \in SslCiphers :
            SslContextFor(v, c) =
                [verify |-> v,
                 ciphers |-> IF c = "default" THEN "PYTHON_DEFAULT" ELSE c]
       /\ \A request \in Queries :
            (Requested(request) /\ last'.result = "Authorized") =>
                LET dynamic == last'.by = "dynamic"
                    rule == Item(dynamic_proxied_urls, last'.url_id)
                    verify == IF dynamic THEN rule.ssl_verification
                              ELSE IF "ssl_verification" \in options.keys
                                   THEN options.ssl_verification ELSE TRUE
                    profile == IF dynamic THEN rule.ssl_ciphers ELSE options.ssl_ciphers
                IN  last'.ssl_context =
                        [verify |-> verify,
                         ciphers |-> IF profile = "default"
                                     THEN "PYTHON_DEFAULT" ELSE profile]]_vars

\* a rule with ssl_verification False and ssl_ciphers "default" has
\* authorized a request
C15_Witness ==
    /\ last.op = "authorize" /\ last.result = "Authorized" /\ last.by = "dynamic"
    /\ last.ssl_context = [verify |-> FALSE, ciphers |-> "PYTHON_DEFAULT"]
    /\ Item(dynamic_proxied_urls, last.url_id).ssl_verification = FALSE
    /\ Item(dynamic_proxied_urls, last.url_id).ssl_ciphers = "default"

---------------------------------------------------------------------------
(* C16 *)

\* C16: a request changes at most one item of the registry: one that is
\* denied, or authorized by a static pattern, leaves the registry as it was
\* (no expired or non-matching rule loses a use), and one that a dynamic
\* rule authorizes leaves it as it was but for that rule, which loses one
\* use or is removed.
C16_AuthorizeFrame ==
    [][\A request \in Queries :
        Requested(request) =>
            LET urls == dynamic_proxied_urls
                w == last'.pos
            IN  IF last'.result = "Authorized" /\ last'.by = "dynamic"
                THEN /\ w \in 1..Len(urls)
                     /\ urls[w].url_id = last'.url_id
                     /\ \/ dynamic_proxied_urls' = urls
                        \/ /\ urls[w].open_limit > 1
                           /\ dynamic_proxied_urls' =
                                  [urls EXCEPT ![w].open_limit = @ - 1]
                        \/ dynamic_proxied_urls' =
                               SubSeq(urls, 1, w - 1) \o SubSeq(urls, w + 1, Len(urls))
                ELSE dynamic_proxied_urls' = urls]_vars

\* the second rule has authorized a request and lost a use, and the first
\* rule, which matches the URL and is expired, has kept its two uses
C16_Witness ==
    /\ last.op = "authorize" /\ last.by = "dynamic" /\ last.pos = 2
    /\ Len(dynamic_proxied_urls) = 2
    /\ dynamic_proxied_urls[2].url_id = last.url_id
    /\ uses[last.url_id] = [limit0 |-> 2, granted |-> 1]
    /\ Lapsed(dynamic_proxied_urls[1], now)
    /\ urlmatch(dynamic_proxied_urls[1].url_pattern, last.url)
    /\ dynamic_proxied_urls[1].open_limit = 2
    /\ uses[dynamic_proxied_urls[1].url_id] = [limit0 |-> 2, granted |-> 0]

---------------------------------------------------------------------------
(* C17 *)

\* C17: a setup of the entry leaves an empty registry; the create and
\* delete services are called only while the dynamic_urls option is set;
\* and while it is not set the registry is empty and a request ends
\* NotFound or authorized by a static pattern, never Expired.
C17_DisabledMeansEmpty ==
    /\ last.op = "setup" => dynamic_proxied_urls = <<>>
    /\ last.op \in {"create", "delete"} => OptionsGet(options, "dynamic_urls", FALSE)
    /\ ~OptionsGet(options, "dynamic_urls", FALSE) =>
        /\ dynamic_proxied_urls = <<>>
        /\ last.op = "authorize" =>
            \/ last.result = "NotFound"
            \/ last.result = "Authorized" /\ last.by = "static"

---------------------------------------------------------------------------
(* C18 *)

\* C18: every call of _get_proxied_url ends Authorized, Expired or NotFound;
\* its loop takes no key of the registry twice; and once it has removed the
\* used-up rule it does nothing but return, so it never takes another item
\* from the dict it has changed.
C18_ScanTerminates ==
    /\ [](\A r \in Requests :
            /\ reqs[r].pc = "done" =>
                   reqs[r].result \in {"Authorized", "Expired", "NotFound"}
            /\ \A i, j \in 1..Len(reqs[r].visited) :
                   reqs[r].visited[i] = reqs[r].visited[j] => i = j)
    /\ [][\A r \in Requests :
            /\ (reqs[r].pc = "del" /\ reqs'[r].pc # "del") => reqs'[r].pc = "ret"
            /\ (reqs[r].pc = "ret" /\ reqs'[r].pc # "ret") =>
                   reqs'[r].pc = "done" /\ reqs'[r].result = "Authorized"]_vars

====
